---------------------------- MODULE Spec2Model ----------------------------
(***************************************************************************)
(* openmdao.ParametersPane (ParametersPane.js): the parameter table of a   *)
(* driver, its delete / cell-edit / clear handlers, the add-parameter      *)
(* dialog and the scan of the workflow that feeds the dialog's candidates. *)
(*                                                                         *)
(* Text is a sequence of one-character strings, so that split, trim and    *)
(* concatenation are computed character by character as the JavaScript     *)
(* does; Show turns a text into a TLA+ string for comparison with a        *)
(* literal.                                                                *)
(***************************************************************************)
EXTENDS Naturals, Integers, Sequences, FiniteSets, TLC

VARIABLES
    editable,     \* constructor argument `editable`
    data,         \* the grid's row set: parms.getData()
    candidates,   \* the outer `candidates` of the pane (line 6)
    limits,       \* the outer `limits` of the pane (line 7)
    inv,          \* one record per promptForParameter invocation
    ev            \* the handler that ran last and what it did: its operation,
                  \* the invocation and row it was for, whether a click was on
                  \* the delete column, the edited field, the dialog's fields
                  \* or the committed value, the rows loaded, the commands
                  \* it issued, whether it threw, whether it alerted

vars == <<editable, data, candidates, limits, inv, ev>>

---------------------------------------------------------------------------
(* Bounds of the model *)

\* add-button clicks (promptForParameter invocations) in one behaviour
MaxAdds == 2

\* longest text enumerated character by character
MaxLen == 3

---------------------------------------------------------------------------
(* Text *)

RECURSIVE Show(_)
Show(s) == IF s = <<>> THEN "" ELSE Head(s) \o Show(Tail(s))

\* characters jQuery.trim removes
WhiteSpace == {" ", "\t", "\n"}

Comma == ","

\* the constructor argument `pathname`
pathname == <<"p","a","t","h">>

\* the index of the first comma of s, 0 when there is none
RECURSIVE FirstComma(_, _)
FirstComma(s, i) ==
    IF i > Len(s) THEN 0
    ELSE IF s[i] = Comma THEN i
    ELSE FirstComma(s, i + 1)

\* String.prototype.split(","): the pieces between the commas, in order;
\* a text without a comma (the empty text too) gives one piece
RECURSIVE Split(_)
Split(s) ==
    LET i == FirstComma(s, 1)
    IN  IF i = 0 THEN <<s>>
        ELSE <<SubSeq(s, 1, i - 1)>> \o Split(SubSeq(s, i + 1, Len(s)))

RECURSIVE TrimLeft(_)
TrimLeft(s) ==
    IF s # <<>> /\ Head(s) \in WhiteSpace THEN TrimLeft(Tail(s)) ELSE s

RECURSIVE TrimRight(_)
TrimRight(s) ==
    IF s # <<>> /\ s[Len(s)] \in WhiteSpace
    THEN TrimRight(SubSeq(s, 1, Len(s) - 1))
    ELSE s

\* jQuery.trim
Trim(s) == TrimRight(TrimLeft(s))

\* a faulty test, which would take the text 0 for a number and so for falsy
TruthyAsNumber(s) == Len(s) > 0 /\ s # <<"0">>

\* JavaScript truthiness of a string (what a text input's val() returns):
\* only the empty string is falsy, "0" is truthy
Truthy(s) == Len(s) > 0

\* a row field as JavaScript sees it: a string, or undefined
Str(s) == [def |-> TRUE, s |-> s]
Undefined == [def |-> FALSE, s |-> <<>>]

\* string concatenation of a field: undefined becomes the text "undefined"
Concatenated(v) == IF v.def THEN v.s ELSE <<"u","n","d","e","f","i","n","e","d">>

---------------------------------------------------------------------------
(* Command text *)

\* a faulty group branch, which would quote the pieces untrimmed
RECURSIVE GroupMembersUntrimmed(_)
GroupMembersUntrimmed(targets) ==
    IF targets = <<>> THEN <<>>
    ELSE <<"'">> \o Head(targets) \o <<"'", ",">>
         \o GroupMembersUntrimmed(Tail(targets))

\* a faulty group branch, which would skip the empty pieces
RECURSIVE GroupMembersSkipEmpty(_)
GroupMembersSkipEmpty(targets) ==
    IF targets = <<>> THEN <<>>
    ELSE (IF Trim(Head(targets)) = <<>> THEN <<>>
          ELSE <<"'">> \o Trim(Head(targets)) \o <<"'", ",">>)
         \o GroupMembersSkipEmpty(Tail(targets))

\* the group branch of addParameter: each piece trimmed, quoted, followed
\* by a comma
RECURSIVE GroupMembers(_)
GroupMembers(targets) ==
    IF targets = <<>> THEN <<>>
    ELSE <<"'">> \o Trim(Head(targets)) \o <<"'", ",">>
         \o GroupMembers(Tail(targets))

\* the target literal of addParameter
TargetLiteral(target) ==
    LET targets == Split(target)
    IN  IF Len(targets) > 1
        THEN <<".","a","d","d","_","p","a","r","a","m","e","t","e","r","(","(">>
             \o GroupMembers(targets) \o <<")">>
        ELSE <<".","a","d","d","_","p","a","r","a","m","e","t","e","r","(","'">>
             \o target \o <<"'">>

\* one optional clause of addParameter: appended when the value is truthy
Clause(key, value, close) ==
    IF Truthy(value) THEN key \o value \o close ELSE <<>>

\* a faulty addParameter, which would append high before low
AddCommandHighFirst(target, low, high, scaler, adder, name) ==
    pathname \o TargetLiteral(target)
    \o Clause(<<",","h","i","g","h","=">>, high, <<>>)
    \o Clause(<<",","l","o","w","=">>, low, <<>>)
    \o Clause(<<",","s","c","a","l","e","r","=">>, scaler, <<>>)
    \o Clause(<<",","a","d","d","e","r","=">>, adder, <<>>)
    \o Clause(<<",","n","a","m","e","=","'">>, name, <<"'">>)
    \o <<")", ";">>

\* the command addParameter issues
AddCommand(target, low, high, scaler, adder, name) ==
    pathname \o TargetLiteral(target)
    \o Clause(<<",","l","o","w","=">>, low, <<>>)
    \o Clause(<<",","h","i","g","h","=">>, high, <<>>)
    \o Clause(<<",","s","c","a","l","e","r","=">>, scaler, <<>>)
    \o Clause(<<",","a","d","d","e","r","=">>, adder, <<>>)
    \o Clause(<<",","n","a","m","e","=","'">>, name, <<"'">>)
    \o <<")", ";">>

\* a faulty remove command, which would quote a group name as a single one
RemoveCommandQuoted(delname) ==
    pathname
    \o <<".","r","e","m","o","v","e","_","p","a","r","a","m","e","t","e","r","(","\"">>
    \o delname \o <<"\"", ")", ";">>

\* the command the delete click issues for a row name that is a string
RemoveCommand(delname) ==
    IF Len(Split(delname)) > 1
    THEN pathname
         \o <<".","r","e","m","o","v","e","_","p","a","r","a","m","e","t","e","r","(">>
         \o delname \o <<")", ";">>
    ELSE pathname
         \o <<".","r","e","m","o","v","e","_","p","a","r","a","m","e","t","e","r","(","\"">>
         \o delname \o <<"\"", ")", ";">>

\* a faulty clear command, which would lack the closing semicolon
ClearCommandUnterminated ==
    pathname
    \o <<".","c","l","e","a","r","_","p","a","r","a","m","e","t","e","r","s","(",")">>

\* the command clearParameters issues
ClearCommand ==
    pathname
    \o <<".","c","l","e","a","r","_","p","a","r","a","m","e","t","e","r","s","(",")",";">>

\* the command the cell-change handler issues for the edited row
CellCommand(item) ==
    pathname \o <<".">> \o Concatenated(item.name) \o <<"=">> \o Concatenated(item.value)

---------------------------------------------------------------------------
(* The remote model: the workflow and the components getWorkflow and       *)
(* getComponent describe                                                   *)

tc == <<"t", ".", "c">>
sc == <<"s", ".", "c">>
td == <<"t", ".", "d">>

\* a bound of an input: <<>> when the input has no such field, <<n>> for n
NoBound == <<>>

\* what getComponent answers for a component path: t.c and s.c share the
\* short name c; t.d has no Inputs list
ComponentJson(path) ==
    IF path = tc
    THEN [hasInputs |-> TRUE,
          Inputs |-> << [name |-> <<"x">>, low |-> <<0>>, high |-> <<10>>],
                        [name |-> <<"y">>, low |-> NoBound, high |-> NoBound] >>]
    ELSE IF path = sc
    THEN [hasInputs |-> TRUE,
          Inputs |-> << [name |-> <<"x">>, low |-> <<1>>, high |-> NoBound] >>]
    ELSE [hasInputs |-> FALSE, Inputs |-> <<>>]

\* the workflows getWorkflow may answer: wjson[0].workflow, as component paths
Workflows == { <<tc, sc>>, <<td>> }

---------------------------------------------------------------------------
(* The scan of one promptForParameter invocation *)

\* the index of the last dot of s, 0 when there is none
RECURSIVE LastDot(_, _)
LastDot(s, i) ==
    IF i = 0 THEN 0
    ELSE IF s[i] = "." THEN i
    ELSE LastDot(s, i - 1)

\* comp.pathname.split('.').slice(-1)[0]
ShortName(path) == SubSeq(path, LastDot(path, Len(path)) + 1, Len(path))

\* `if (input.low) low = input.low`: null unless present and non-zero
BoundOrNull(b) == IF b # NoBound /\ b[1] # 0 THEN b ELSE NoBound

\* limits[fullpath] = [low, high]
Assign(lim, key, val) ==
    [k \in (DOMAIN lim) \cup {key} |-> IF k = key THEN val ELSE lim[k]]

\* the body of findInputs for one input: push the candidate, set its limits
AddInput(acc, comppath, input) ==
    LET fullpath == comppath \o <<".">> \o input.name
    IN  [cand |-> Append(acc.cand, fullpath),
         lim  |-> Assign(acc.lim, fullpath,
                         <<BoundOrNull(input.low), BoundOrNull(input.high)>>)]

\* jQuery.each(cjson.Inputs, ...) of findInputs
RECURSIVE FindInputs(_, _, _)
FindInputs(acc, comppath, inputs) ==
    IF inputs = <<>> THEN acc
    ELSE FindInputs(AddInput(acc, comppath, Head(inputs)), comppath, Tail(inputs))

---------------------------------------------------------------------------
(* State *)

NoLimits == [k \in {} |-> <<>>]

\* an invocation that has not started
Idle ==
    [st |-> "idle", wf |-> <<>>, pending |-> {}, cand |-> <<>>,
     lim |-> NoLimits, z |-> 0, cb |-> 0, endedBy |-> "none"]

NoEvent ==
    [op |-> "none", id |-> 0, row |-> 0, del |-> FALSE, col |-> "", fields |-> <<>>,
     rows |-> <<>>, cmds |-> <<>>, threw |-> FALSE, alert |-> FALSE]

Event(op) == [NoEvent EXCEPT !.op = op]

Ids == 1 .. MaxAdds

Open(i) == inv[i].st = "open"

AnyOpen == \E i \in Ids : Open(i)

\* the dialog above all others: a modal dialog (line 207) takes the clicks
Top(i) == Open(i) /\ \A j \in Ids : Open(j) => inv[j].z <= inv[i].z

\* columns of the grid (lines 11-20): cell.cell is 0 .. 7
LastColumn == 7

Init ==
    /\ editable \in BOOLEAN
    /\ data = <<>>
    /\ candidates = <<>>
    /\ limits = NoLimits
    /\ inv = [i \in Ids |-> Idle]
    /\ ev = NoEvent

---------------------------------------------------------------------------
(* The table: loadData and the grid's handlers.  The dialog is modal    *)
(* (line 207): while one is open the user's clicks do not reach the grid   *)
(* or the buttons of the pane, so those handlers are guarded by ~AnyOpen;  *)
(* loadData is called by the application and is not.                       *)

\* a faulty loadData, which would append the rows to those shown
LoadDataMerges(P) ==
    \E properties \in P :
        /\ data' = IF properties.present THEN data \o properties.rows ELSE <<>>
        /\ ev' = [Event("loadData") EXCEPT !.rows = properties.rows,
                                            !.alert = ~properties.present]
        /\ UNCHANGED <<editable, candidates, limits, inv>>

\* this.loadData(properties): a present value replaces the rows; null or
\* undefined empties the table and alerts
LoadData(P) ==
    \E properties \in P :
        /\ data' = IF properties.present THEN properties.rows ELSE <<>>
        /\ ev' = [Event("loadData") EXCEPT !.rows = properties.rows,
                                            !.alert = ~properties.present]
        /\ UNCHANGED <<editable, candidates, limits, inv>>

\* `delname.split(",")` on a name that is undefined raises a TypeError
DeleteThrows(item) == ~item.name.def

\* the commands the delete click on a row issues
DeleteCommands(item) ==
    IF DeleteThrows(item) THEN <<>> ELSE <<RemoveCommand(item.name.s)>>

\* rows without the row at index row
Without(rows, row) ==
    SubSeq(rows, 1, row - 1) \o SubSeq(rows, row + 1, Len(rows))

\* a faulty click handler, which would drop the deleted row from the table
\* at once instead of waiting for the next loadData
ClickRemovesRow ==
    \E row \in 1 .. Len(data), cell \in 0 .. LastColumn :
        /\ ~AnyOpen
        /\ ev' = [Event("click") EXCEPT
                    !.row = row, !.del = (cell = 0),
                    !.cmds = IF cell = 0 THEN DeleteCommands(data[row]) ELSE <<>>,
                    !.threw = (cell = 0 /\ DeleteThrows(data[row]))]
        /\ data' = IF cell = 0 THEN Without(data, row) ELSE data
        /\ UNCHANGED <<editable, candidates, limits, inv>>

\* parms.onClick: a click on cell `cell` of row `row`; only column 0, the
\* trash icon, does anything
Click ==
    \E row \in 1 .. Len(data), cell \in 0 .. LastColumn :
        /\ ~AnyOpen
        /\ ev' = [Event("click") EXCEPT
                    !.row = row, !.del = (cell = 0),
                    !.cmds = IF cell = 0 THEN DeleteCommands(data[row]) ELSE <<>>,
                    !.threw = (cell = 0 /\ DeleteThrows(data[row]))]
        /\ UNCHANGED <<editable, data, candidates, limits, inv>>

\* the fields of a row a cell of the grid may show and commit
EditedFields == {"target", "name"}

\* what the user commits to a cell
CellValues == {<<"7">>}

\* args.item: the row of the committed cell as the grid hands it over, the
\* committed value in the edited field
Item(item, field, value) == [item EXCEPT ![field] = Str(value)]

\* parms.onCellChange, subscribed only when the pane is editable: the
\* handler reads args.item.name and args.item.value.  Whether the grid also
\* keeps the committed value in its row set is the grid's business
\* (Slick.Grid is no part of the pane); the handler itself sets no data.
CellChange ==
    \E row \in 1 .. Len(data), field \in EditedFields, value \in CellValues :
        /\ editable
        /\ ~AnyOpen
        /\ ev' = [Event("cellChange") EXCEPT
                    !.row = row, !.col = field, !.fields = <<value>>,
                    !.cmds = <<CellCommand(Item(data[row], field, value))>>]
        /\ UNCHANGED <<editable, data, candidates, limits, inv>>

\* clrButton.click: clearParameters()
ClearClick ==
    /\ ~AnyOpen
    /\ ev' = [Event("clear") EXCEPT !.cmds = <<ClearCommand>>]
    /\ UNCHANGED <<editable, data, candidates, limits, inv>>

---------------------------------------------------------------------------
(* The add dialog: promptForParameter *)

InProgress(i) == inv[i].st \in {"wf", "open"}

\* addButton.click: promptForParameter(addParameter, model) requests the
\* workflow.  `sequential` restricts the user to one add at a time.
AddClick(sequential) ==
    \E i \in Ids :
        /\ inv[i].st = "idle"
        /\ \A j \in Ids : j < i => inv[j].st # "idle"
        /\ ~AnyOpen
        /\ sequential => \A j \in Ids : ~InProgress(j)
        /\ inv' = [inv EXCEPT ![i].st = "wf"]
        /\ ev' = [Event("add") EXCEPT !.id = i]
        /\ UNCHANGED <<editable, data, candidates, limits>>

\* the z-order of the next dialog
NextZ == 1 + Cardinality({j \in Ids : inv[j].z > 0})

\* a faulty error path, which would show the dialog all the same
WorkflowFailOpens ==
    \E i \in Ids :
        /\ inv[i].st = "wf"
        /\ inv' = [inv EXCEPT ![i] = [@ EXCEPT !.st = "open", !.z = NextZ]]
        /\ ev' = [Event("error_handler") EXCEPT !.id = i]
        /\ UNCHANGED <<editable, data, candidates, limits>>

\* the workflow request fails: error_handler logs
WorkflowFail ==
    \E i \in Ids :
        /\ inv[i].st = "wf"
        /\ inv' = [inv EXCEPT ![i].st = "err"]
        /\ ev' = [Event("error_handler") EXCEPT !.id = i]
        /\ UNCHANGED <<editable, data, candidates, limits>>

\* the candidates and limits of a whole workflow, component by component
RECURSIVE ScanAll(_, _)
ScanAll(acc, workflow) ==
    IF workflow = <<>> THEN acc
    ELSE ScanAll(IF ComponentJson(Head(workflow)).hasInputs
                 THEN FindInputs(acc, ShortName(Head(workflow)),
                                 ComponentJson(Head(workflow)).Inputs)
                 ELSE acc,
                 Tail(workflow))

\* a faulty findComps, which would wait for every component before it
\* shows the dialog
WorkflowResponseJoined(W) ==
    \E i \in Ids, workflow \in W :
        /\ inv[i].st = "wf"
        /\ inv' = [inv EXCEPT ![i] =
                     [@ EXCEPT !.st = "open", !.wf = workflow,
                               !.pending = {},
                               !.cand = ScanAll([cand |-> <<>>, lim |-> NoLimits],
                                                workflow).cand,
                               !.lim = ScanAll([cand |-> <<>>, lim |-> NoLimits],
                                               workflow).lim,
                               !.z = NextZ]]
        /\ ev' = [Event("findComps") EXCEPT !.id = i]
        /\ UNCHANGED <<editable, data, candidates, limits>>

\* a faulty findComps, which would go on with the lists of the invocation
\* before it instead of fresh ones
WorkflowResponseShared(W) ==
    \E i \in Ids, workflow \in W :
        /\ inv[i].st = "wf"
        /\ inv' = [inv EXCEPT ![i] =
                     [@ EXCEPT !.st = "open", !.wf = workflow,
                               !.pending = 1 .. Len(workflow),
                               !.cand = IF i > 1 THEN inv[i - 1].cand ELSE <<>>,
                               !.lim = IF i > 1 THEN inv[i - 1].lim ELSE NoLimits,
                               !.z = NextZ]]
        /\ ev' = [Event("findComps") EXCEPT !.id = i]
        /\ UNCHANGED <<editable, data, candidates, limits>>

\* findComps(wjson): fresh local candidates and limits, one getComponent
\* request per component of the workflow, then the dialog is built and shown
WorkflowResponse(W) ==
    \E i \in Ids, workflow \in W :
        /\ inv[i].st = "wf"
        /\ inv' = [inv EXCEPT ![i] =
                     [@ EXCEPT !.st = "open", !.wf = workflow,
                               !.pending = 1 .. Len(workflow),
                               !.cand = <<>>, !.lim = NoLimits, !.z = NextZ]]
        /\ ev' = [Event("findComps") EXCEPT !.id = i]
        /\ UNCHANGED <<editable, data, candidates, limits>>

\* the candidates and limits of invocation i after findInputs(cjson) ran
\* for its component k
AfterFetch(i, k) ==
    LET cjson == ComponentJson(inv[i].wf[k])
    IN  IF cjson.hasInputs
        THEN FindInputs([cand |-> inv[i].cand, lim |-> inv[i].lim],
                        ShortName(inv[i].wf[k]), cjson.Inputs)
        ELSE [cand |-> inv[i].cand, lim |-> inv[i].lim]

\* a getComponent request completes: findInputs(cjson).  Without an Inputs
\* list jQuery.each(undefined, ...) either raises a TypeError or iterates
\* nothing, as the jQuery release decides.  A request that fails runs no
\* code of the pane (line 130 passes no error callback): it is a request
\* that stays outstanding.
FetchComplete ==
    \E i \in Ids : \E k \in inv[i].pending, typeError \in BOOLEAN :
        /\ typeError => ~ComponentJson(inv[i].wf[k]).hasInputs
        /\ inv' = [inv EXCEPT ![i] =
                     [@ EXCEPT !.pending = @ \ {k},
                               !.cand = AfterFetch(i, k).cand,
                               !.lim = AfterFetch(i, k).lim]]
        /\ ev' = [Event("findInputs") EXCEPT !.id = i, !.row = k,
                                             !.threw = typeError]
        /\ UNCHANGED <<editable, data, candidates, limits>>

\* the callback handed to promptForParameter at line 242: addParameter
Callback(f) == <<AddCommand(f[1], f[2], f[3], f[4], f[5], f[6])>>

\* the Ok button: close, callback(target, low, high, scaler, adder, name),
\* remove.  f holds the six fields' val().
OkClick(F) ==
    \E i \in Ids, f \in F :
        /\ Top(i)
        /\ inv' = [inv EXCEPT ![i] =
                     [@ EXCEPT !.st = "closed", !.endedBy = "ok",
                               !.cb = @ + 1]]
        /\ ev' = [Event("ok") EXCEPT !.id = i, !.fields = f, !.cmds = Callback(f)]
        /\ UNCHANGED <<editable, data, candidates, limits>>

\* a faulty Cancel handler, which would invoke the callback as Ok does
CancelClickCallsBack ==
    \E i \in Ids :
        /\ Top(i)
        /\ inv' = [inv EXCEPT ![i] =
                     [@ EXCEPT !.st = "closed", !.endedBy = "cancel",
                               !.cb = @ + 1]]
        /\ ev' = [Event("cancel") EXCEPT !.id = i]
        /\ UNCHANGED <<editable, data, candidates, limits>>

\* the Cancel button: close, remove
CancelClick ==
    \E i \in Ids :
        /\ Top(i)
        /\ inv' = [inv EXCEPT ![i] =
                     [@ EXCEPT !.st = "closed", !.endedBy = "cancel"]]
        /\ ev' = [Event("cancel") EXCEPT !.id = i]
        /\ UNCHANGED <<editable, data, candidates, limits>>

---------------------------------------------------------------------------
(* Inputs *)

Alphabet == {"a", ",", " "}

RECURSIVE TextsOfLen(_)
TextsOfLen(n) ==
    IF n = 0 THEN {<<>>}
    ELSE {Append(t, c) : t \in TextsOfLen(n - 1), c \in Alphabet}

\* every text over Alphabet of at most MaxLen characters
ShortTexts == UNION {TextsOfLen(n) : n \in 0 .. MaxLen}

Empty == <<>>
Comp1X == <<"c","o","m","p","1",".","x">>
SpacedGroup == <<" ","a",".","x"," ",","," ","a",".","y"," ">>
Grp1 == <<"g","r","p","1">>
AXAY == <<"a",".","x",",","a",".","y">>
AX == <<"a",".","x">>

Row(name, target, value) == [name |-> name, target |-> target, value |-> value]

Loaded(rows) == [present |-> TRUE, rows |-> rows]
NotLoaded == [present |-> FALSE, rows |-> <<>>]

\* what the application pushes to the pane
PanelLoads ==
    { Loaded(<<>>),
      Loaded(<< Row(Str(AXAY), AXAY, Str(<<"5">>)), Row(Undefined, AX, Undefined) >>),
      NotLoaded }

\* what the user types into the dialog of the pane
PanelFields ==
    { <<Comp1X, <<"0">>, <<"1","0">>, Empty, Empty, Empty>>,
      <<SpacedGroup, Empty, Empty, Empty, Empty, Grp1>> }

\* the texts the command builders are tried on
BuilderTexts == ShortTexts \cup {Comp1X, SpacedGroup, AXAY, AX}

BuilderFields ==
    BuilderTexts \X {Empty, <<"0">>} \X {Empty, <<"1","0">>}
                 \X {Empty, <<"2">>} \X {Empty, <<"0">>} \X {Empty, Grp1}

BuilderLoads ==
    { Loaded(<<Row(name, AX, Undefined)>>) :
        name \in {Undefined} \cup {Str(t) : t \in BuilderTexts} }

---------------------------------------------------------------------------
(* Specifications *)

\* the pane with all its handlers
Next ==
    \/ LoadData(PanelLoads)
    \/ Click
    \/ CellChange
    \/ ClearClick
    \/ AddClick(FALSE)
    \/ WorkflowFail
    \/ WorkflowResponse(Workflows)
    \/ FetchComplete
    \/ OkClick(PanelFields)
    \/ CancelClick

Spec == Init /\ [][Next]_vars

\* the add dialog, one at a time, confirmed with every text of BuilderFields
NextAdd ==
    \/ AddClick(TRUE)
    \/ WorkflowResponse({<<>>})
    \/ OkClick(BuilderFields)

SpecAdd == Init /\ [][NextAdd]_vars

\* the table, loaded with every row name of BuilderLoads, and its clicks
NextRemove ==
    \/ LoadData(BuilderLoads)
    \/ Click

SpecRemove == Init /\ [][NextRemove]_vars

---------------------------------------------------------------------------
(* Reading command text back: what the properties compare the commands to  *)

HasComma(t) == \E k \in 1 .. Len(t) : t[k] = Comma

Range(q) == {q[k] : k \in 1 .. Len(q)}

\* the pieces of t between its commas, by the positions of the commas
Pieces(t) ==
    LET cs == {k \in 1 .. Len(t) : t[k] = Comma}
        n == Cardinality(cs)
        pos(k) == IF k = 0 THEN 0
                  ELSE IF k = n + 1 THEN Len(t) + 1
                  ELSE CHOOSE c \in cs : Cardinality({d \in cs : d < c}) = k - 1
    IN  [k \in 1 .. n + 1 |-> SubSeq(t, pos(k - 1) + 1, pos(k) - 1)]

\* s without the white space around it, by the positions of its other characters
Strip(s) ==
    LET ns == {k \in 1 .. Len(s) : s[k] \notin WhiteSpace}
    IN  IF ns = {} THEN <<>>
        ELSE SubSeq(s, CHOOSE a \in ns : \A b \in ns : a <= b,
                       CHOOSE a \in ns : \A b \in ns : a >= b)

\* an optional clause, as a string
Opt(key, value, close) == IF value = <<>> THEN "" ELSE key \o Show(value) \o close

\* the optional clauses of the fields f in the order low, high, scaler,
\* adder, name, and the end of the command
Options(f) ==
    Opt(",low=", f[2], "") \o Opt(",high=", f[3], "") \o Opt(",scaler=", f[4], "")
    \o Opt(",adder=", f[5], "") \o Opt(",name='", f[6], "'") \o ");"

\* a group literal's members, each in single quotes and followed by a comma
RECURSIVE ShowMembers(_)
ShowMembers(ms) ==
    IF ms = <<>> THEN "" ELSE "'" \o Show(Head(ms)) \o "'," \o ShowMembers(Tail(ms))

\* the members listed in the group literal that starts at s[i]: each is the
\* text between a quote and the quote before the next comma, up to the )
RECURSIVE ParseMembers(_, _)
ParseMembers(s, i) ==
    IF i > Len(s) \/ s[i] # "'" THEN <<>>
    ELSE LET j == FirstComma(s, i)
         IN  <<SubSeq(s, i + 1, j - 2)>> \o ParseMembers(s, j + 1)

\* the members listed in the group literal of an add command
AddMembers(cmd) == Range(ParseMembers(cmd, Len(pathname) + 17))

\* the literal of a group remove command: what stands between
\* `.remove_parameter(` and `);`
RemoveLiteral(cmd) == SubSeq(cmd, Len(pathname) + 19, Len(cmd) - 2)

\* the members a group remove literal implies: its comma-separated items,
\* the white space around an unquoted item being no part of it
RemoveMembers(cmd) == {Strip(p) : p \in Range(Pieces(RemoveLiteral(cmd)))}

\* the last handler was the Ok button / a click on a trash icon
Confirmed == ev.op = "ok"
DeleteClicked == ev.op = "click" /\ ev.del

---------------------------------------------------------------------------
(* Properties *)

\* C1: every dialog invokes its callback at most once, and exactly once if
\* and only if it was ended by Ok and not by Cancel; a dialog that is not
\* ended has not invoked it
C1_CallbackOnceIffOk ==
    \A i \in Ids :
        /\ inv[i].cb <= 1
        /\ inv[i].cb = 1 <=> inv[i].endedBy = "ok"
        /\ inv[i].st = "closed" <=> inv[i].endedBy \in {"ok", "cancel"}

\* one dialog confirmed after its fetches completed, another cancelled
C1_Witness ==
    \E i, j \in Ids :
        /\ inv[i].endedBy = "ok" /\ inv[i].cb = 1
        /\ inv[i].cand # <<>> /\ inv[i].pending = {}
        /\ inv[j].endedBy = "cancel" /\ inv[j].cb = 0

\* C2: the row set changes only in loadData: every other handler (delete
\* click, cell change, Ok, Cancel, clear, the scan's callbacks) leaves it as
\* it was
C2_RowsChangeOnlyInLoadData == [][data' # data => ev'.op = "loadData"]_vars

\* a delete click has issued its command and the clicked row is still there
C2_Witness ==
    /\ DeleteClicked /\ Len(ev.cmds) = 1
    /\ Len(data) = 2 /\ data[ev.row].name = Str(AXAY)


\* the name of the row the last click was on
ClickedName == data[ev.row].name

Target == ev.fields[1]

\* C4: for a comma-free target, the add command holds the clause of low,
\* high, scaler, adder and name exactly when that field is not empty, each
\* value verbatim (the text 0 too), in that order, and then );
C4_OptionalClauses ==
    (Confirmed /\ ~HasComma(Target)) =>
        /\ Len(ev.cmds) = 1
        /\ Show(ev.cmds[1]) =
             "path.add_parameter('" \o Show(Target) \o "'" \o Options(ev.fields)

\* a single target confirmed with low, scaler and name filled in and high
\* and adder left empty
C4_Witness ==
    /\ Confirmed /\ Target = <<"a">>
    /\ ev.fields[2] = <<"0">> /\ ev.fields[3] = Empty /\ ev.fields[4] = <<"2">>
    /\ ev.fields[5] = Empty /\ ev.fields[6] = Grp1
    /\ Show(ev.cmds[1]) = "path.add_parameter('a',low=0,scaler=2,name='grp1');"

ScenarioA == <<Comp1X, <<"0">>, <<"1","0">>, Empty, Empty, Empty>>

\* C5: confirming the dialog with target comp1.x, low 0, high 10 and the
\* other fields empty issues path.add_parameter('comp1.x',low=0,high=10);
C5_ZeroLowKept ==
    (Confirmed /\ ev.fields = ScenarioA) =>
        /\ Len(ev.cmds) = 1
        /\ Show(ev.cmds[1]) = "path.add_parameter('comp1.x',low=0,high=10);"

\* the dialog was confirmed with those fields
C5_Witness == Confirmed /\ ev.fields = ScenarioA /\ ev.cmds # <<>>

\* the pieces of t, each without the white space around it
StrippedPieces(t) == [k \in DOMAIN Pieces(t) |-> Strip(Pieces(t)[k])]

ScenarioB == <<SpacedGroup, Empty, Empty, Empty, Empty, Grp1>>

\* C6: for a target with a comma, the add command's target is the group
\* literal ('m1','m2',...,) of the target's comma-separated members, each
\* without the white space around it, in single quotes, in their order
C6_GroupLiteral ==
    (Confirmed /\ HasComma(Target)) =>
        /\ Len(ev.cmds) = 1
        /\ Show(ev.cmds[1]) =
             "path.add_parameter((" \o ShowMembers(StrippedPieces(Target)) \o ")"
             \o Options(ev.fields)
        /\ ev.fields = ScenarioB =>
             Show(ev.cmds[1]) = "path.add_parameter(('a.x','a.y',),name='grp1');"

\* the dialog was confirmed with the target " a.x , a.y " and the name grp1
C6_Witness ==
    /\ Confirmed /\ ev.fields = ScenarioB
    /\ Show(ev.cmds[1]) = "path.add_parameter(('a.x','a.y',),name='grp1');"

\* C7 as stated: for a comma-free target the quoted target literal of the
\* add command is the target without the white space around it
C7_SingleTargetTrimmed ==
    (Confirmed /\ ~HasComma(Target)) =>
        Show(ev.cmds[1]) =
            "path.add_parameter('" \o Show(Strip(Target)) \o "'" \o Options(ev.fields)

Identity(item) == IF item.name.def THEN item.name.s ELSE item.target

\* C9 as stated: a delete click removes the row by its name, or by its
\* target when it has no name, issues exactly one remove command for that
\* identity and does not fail
C9_NameElseTarget ==
    DeleteClicked =>
        /\ ~ev.threw
        /\ Len(ev.cmds) = 1
        /\ Show(ev.cmds[1]) =
             IF HasComma(Identity(data[ev.row]))
             THEN "path.remove_parameter(" \o Show(Identity(data[ev.row])) \o ");"
             ELSE "path.remove_parameter(\"" \o Show(Identity(data[ev.row])) \o "\");"

\* C10 as stated: at most one dialog is open at any time
C10_AtMostOneOpen == Cardinality({i \in Ids : Open(i)}) <= 1


---------------------------------------------------------------------------
(* Properties of the scan, the table and the commands *)

\* the components of invocation i whose getComponent request has completed
Completed(i) == (1 .. Len(inv[i].wf)) \ inv[i].pending

\* the inputs of component k of invocation i, <<>> without an Inputs list
InputsOf(i, k) == ComponentJson(inv[i].wf[k]).Inputs

\* <shortName>.<inputName> of input n of component k of invocation i
PathOf(i, k, n) == ShortName(inv[i].wf[k]) \o <<".">> \o InputsOf(i, k)[n].name

\* the (component, input) pairs of invocation i whose fetch has completed
CompletedPairs(i) ==
    {<<k, n>> \in (1 .. Len(inv[i].wf)) \X (1 .. 2) :
        k \in Completed(i) /\ n <= Len(InputsOf(i, k))}

\* how often text p stands in the list q
Count(q, p) == Cardinality({m \in 1 .. Len(q) : q[m] = p})

\* null for a bound that is absent or 0
NullIfFalsy(b) == IF b = <<>> \/ b = <<0>> THEN <<>> ELSE b

\* the bounds pair of input n of component k of invocation i
BoundsOf(i, k, n) ==
    <<NullIfFalsy(InputsOf(i, k)[n].low), NullIfFalsy(InputsOf(i, k)[n].high)>>

Scanned(i) == inv[i].st \in {"open", "closed"}

\* every completed pair stands once in the candidate list, no other text does
OneCandidatePerPair(i) ==
    \A p \in Range(inv[i].cand) \cup {PathOf(i, c[1], c[2]) : c \in CompletedPairs(i)} :
        Count(inv[i].cand, p) =
            Cardinality({c \in CompletedPairs(i) : PathOf(i, c[1], c[2]) = p})

\* C11 as stated: a fetch that completes after its dialog was closed is
\* discarded, it changes neither the candidates nor the limits of that
\* dialog
C11_LateFetchDiscarded ==
    [][\A i \in Ids :
         (inv[i].st = "closed" /\ ev'.op = "findInputs" /\ ev'.id = i) =>
             (inv'[i].cand = inv[i].cand /\ inv'[i].lim = inv[i].lim)]_vars

\* C12 as stated: in every scan a component without an Inputs list gives no
\* candidate, and every (component, input) pair whose fetch completed gives
\* one candidate <shortName>.<inputName> whose limits entry is [low, high],
\* a bound null when absent or falsy
C12_OneCandidateWithItsBounds ==
    \A i \in Ids :
        Scanned(i) =>
            /\ OneCandidatePerPair(i)
            /\ \A c \in CompletedPairs(i) :
                 /\ PathOf(i, c[1], c[2]) \in DOMAIN inv[i].lim
                 /\ inv[i].lim[PathOf(i, c[1], c[2])] = BoundsOf(i, c[1], c[2])

\* C13: loadData with a present value leaves exactly the rows given, with
\* no notice; with null or undefined it leaves the table empty and alerts;
\* it does not throw
C13_LoadReplaces ==
    ev.op = "loadData" =>
        /\ data = ev.rows
        /\ ev.alert => data = <<>>
        /\ ~ev.threw

\* loadData(null): the table is empty and the notice is shown
C13_Witness == ev.op = "loadData" /\ ev.alert /\ data = <<>>

\* C14: when the workflow request of an invocation fails, error_handler
\* runs and issues no command, and that invocation never shows a dialog,
\* never calls its callback and stays as it is
C14_FailedScanOpensNothing ==
    [][/\ \A i \in Ids : inv[i].st = "err" => inv'[i] = inv[i]
       /\ ev'.op = "error_handler" =>
            /\ ev'.cmds = <<>>
            /\ inv'[ev'.id].st = "err"
            /\ inv'[ev'.id].z = 0
            /\ inv'[ev'.id].cb = 0
            /\ inv'[ev'.id].endedBy = "none"]_vars

\* the first invocation failed, the second was confirmed
C14_Witness ==
    /\ inv[1].st = "err" /\ inv[1].z = 0 /\ inv[1].cb = 0
    /\ inv[2].endedBy = "ok"

\* C15 as stated: committing a cell issues <path>.<rowName>=<newValue>,
\* newValue the value just committed to the edited cell
C15_CommittedValueAssigned ==
    ev.op = "cellChange" =>
        /\ Len(ev.cmds) = 1
        /\ Show(ev.cmds[1]) =
             "path."
             \o Show(Concatenated(Item(data[ev.row], ev.col, ev.fields[1]).name))
             \o "=" \o Show(ev.fields[1])

\* C16: the candidates and limits of an invocation hold only what the
\* completed fetches of its own workflow gave, and the lists of the pane
\* outside promptForParameter are never written
C16_ListsOwnedByInvocation ==
    /\ candidates = <<>>
    /\ limits = NoLimits
    /\ \A i \in Ids :
         /\ OneCandidatePerPair(i)
         /\ DOMAIN inv[i].lim = {PathOf(i, c[1], c[2]) : c \in CompletedPairs(i)}

\* two invocations with different workflows: the first has its candidates,
\* the second, whose component has no inputs, has none
C16_Witness ==
    /\ inv[1].cand # <<>> /\ inv[1].pending = {}
    /\ Scanned(2) /\ inv[2].wf = <<td>> /\ inv[2].pending = {}
    /\ inv[2].cand = <<>>

\* C17: a clear click issues one command, path.clear_parameters(); whatever
\* the rows and the scans in progress
C17_ClearIsConstant ==
    ev.op = "clear" =>
        /\ Len(ev.cmds) = 1
        /\ Show(ev.cmds[1]) = "path.clear_parameters();"

\* clear clicked with rows in the table, a workflow request pending and a
\* fetch of a closed dialog outstanding
C17_Witness ==
    /\ ev.op = "clear" /\ Len(data) = 2
    /\ \E i, j \in Ids :
         /\ inv[i].st = "closed" /\ inv[i].pending # {}
         /\ inv[j].st = "wf"

\* C18 as stated: no completion removes, reorders or overwrites a candidate
\* or a limits entry an earlier completion of the same scan recorded
C18_AppendOnly ==
    [][\A i \in Ids :
         (ev'.op = "findInputs" /\ ev'.id = i) =>
             /\ Len(inv'[i].cand) >= Len(inv[i].cand)
             /\ SubSeq(inv'[i].cand, 1, Len(inv[i].cand)) = inv[i].cand
             /\ \A key \in DOMAIN inv[i].lim :
                  key \in DOMAIN inv'[i].lim /\ inv'[i].lim[key] = inv[i].lim[key]]_vars

\* C19: when findComps has run the dialog is open, every getComponent
\* request of the scan is still outstanding and no candidate is there yet
C19_OpenedBeforeFetches ==
    ev.op = "findComps" =>
        /\ Open(ev.id)
        /\ inv[ev.id].pending = 1 .. Len(inv[ev.id].wf)
        /\ inv[ev.id].cand = <<>>

\* a dialog is open with some of its candidates while a fetch of its scan
\* is outstanding
C19_Witness ==
    \E i \in Ids :
        Open(i) /\ inv[i].pending # {} /\ inv[i].cand # <<>>
                /\ Completed(i) # {}

\* C20 as stated: every confirmation, clear click, click on the delete
\* column and cell commit issues exactly one command, and no other handler
\* issues any
C20_OneCommandPerAction ==
    Len(ev.cmds) =
        IF ev.op \in {"ok", "clear", "cellChange"} \/ DeleteClicked THEN 1 ELSE 0

=============================================================================
